---- MODULE Spec2Model ----
(***************************************************************************)
(* Hardware health monitor: the D-Bus service (monitor_service.py) with    *)
(* its simulator thread and monitor thread, and the client                 *)
(* (monitor_client.py).                                                    *)
(*                                                                         *)
(* Temperatures are integers counting half degrees (130 is 65.0 C, 170 is  *)
(* 85.0 C); voltages are integers counting hundredths of a volt (110 is    *)
(* 1.10 V).  random.uniform draws are taken from finite subsets of their   *)
(* ranges.                                                                 *)
(***************************************************************************)
EXTENDS Integers, Sequences, FiniteSets, TLC

\* ------------------------------------------------------------- constants
TEMPERATURE_THRESHOLD == 170
InitTemperature == 130
InitVoltage == 110
TempMin == 100
TempMax == 190
VoltMin == 105
VoltMax == 115
\* a service whose previous-sample value starts at the top of the range
InitLastTempReadingHot == TempMax
InitLastTempReading == 0

\* ---------------------------------------------------------------- bounds
MaxTick == 4
MaxForeign == 1
MaxThreads == 2
MaxCalls == 3

\* random.uniform(-0.5, 0.5)
DriftDraws == {-1, 0, 1}
\* random.uniform(5, 15), drawn when random.randint(0, 20) == 5
SpikeDraws == {10, 30}
\* random.uniform(1.05, 1.15)
VoltDraws == {VoltMin, VoltMax}

\* the (drift, spike) draws of one update; no spike is a spike of 0
AllDraws == {<<d, s>> : d \in DriftDraws, s \in {0} \cup SpikeDraws}

\* one outcome of the generator, update by update: 65.0, 80.5, 85.5, then
\* 85.0 and 85.5 in turn
SeedDraw(k) ==
    IF k = 1 THEN <<1, 30>>
    ELSE IF k = 2 THEN <<0, 10>>
    ELSE IF k % 2 = 1 THEN <<-1, 0>>
    ELSE <<1, 0>>

SeedVolt(k) == IF k % 2 = 1 THEN VoltMin ELSE VoltMax

\* the thread objects start() can create
SimThreads == 1..MaxThreads

\* client processes
Clients == {1, 2}

\* arguments of a signal callback: n positional arguments, of which the
\* fifth (when there is one) has type ptype and the elements items; an
\* element is a number or not
Num(x) == [num |-> TRUE, v |-> x]
NotNum == [num |-> FALSE, v |-> 0]

\* what pydbus hands the callback for TemperatureThresholdExceeded(temp):
\* (sender, object, iface, signal, (temp,))
ServiceArgs(temp) == [n |-> 5, ptype |-> "tuple", items |-> <<Num(temp)>>]

\* what another sender of the same interface and signal name may emit
ForeignArgs ==
    { [n |-> 4, ptype |-> "none", items |-> <<>>],
      [n |-> 5, ptype |-> "list", items |-> <<Num(180)>>],
      [n |-> 5, ptype |-> "tuple", items |-> <<>>],
      [n |-> 5, ptype |-> "tuple", items |-> <<NotNum>>] }

Max(a, b) == IF a >= b THEN a ELSE b
Min(a, b) == IF a <= b THEN a ELSE b

VARIABLES
    temperature,    \* HardwareSimulator._temperature
    voltage,        \* HardwareSimulator._voltage
    lock,           \* HardwareSimulator._lock: 0 when free, else the holder
    running,        \* HardwareSimulator._running
    simPc,          \* position of each simulation thread
    tick,           \* number of updates begun (history)
    tempTick,       \* update that wrote _temperature (history)
    voltTick,       \* update that wrote _voltage (history)
    last_temp_reading,   \* HealthMonitorService._last_temp_reading
    shutdown_requested,  \* HealthMonitorService._shutdown_requested
    monPc,          \* position of the monitor thread
    monTemp,        \* local temp of _monitor_loop
    version,        \* HealthMonitorService._version, "" before the service exists
    mainPc,         \* position of the service's main()
    published,      \* bus.publish has registered the object
    busUp,          \* the session bus connection is open
    exitStatus,     \* exit status of the service process
    startupFailed,  \* main() caught an Exception (history)
    rawTemp,        \* _temperature before the clamp of the latest update (history)
    updatesAfterStop, \* updates each thread began since stop(), with no start() since (history)
    evalsAfterShutdown, \* evaluation ticks begun since shutdown() (history)
    sampleTick,     \* update that wrote the monitor's latest sample (history)
    emitsAfterShutdown, \* signal calls made since shutdown() (history)
    calls,          \* start() and stop() calls made by a driver of the API
    apiTemp,        \* what the driver's latest Temperature read returned, -1 before it
    apiVolt,        \* what the driver's latest Voltage read returned, -1 before it
    prevRel,        \* the previous tick's temp against 85.0 (history)
    curSample,      \* temp of the latest evaluation tick, -1 before it (history)
    tickEmit,       \* the latest evaluation tick called the signal (history)
    tornRead,       \* some get_sensor_data returned values of two updates (history)
    emitsInExcursion, \* signal calls since _temperature last rose above 85.0 (history)
    emitCount,      \* signals emitted so far, by the service or others (history)
    foreignCount,   \* signals emitted by other senders (history)
    receiversSeen,  \* numbers of handlers attached when the service put a signal on the bus (history)
    clPc,           \* position of each client's run()
    connectOk,      \* what connect() returned
    subscribed,     \* the client's handler is attached on the bus
    inbox,          \* signals delivered to the client, not yet dispatched
    cRunning,       \* HealthMonitorClient._running
    pollPc,         \* position of each client's _monitor_loop thread
    clTemp,         \* local temp of the client's _monitor_loop
    clVolt,         \* local volt of the client's _monitor_loop
    clTempTick,     \* update that wrote the value in temp (history)
    clVoltTick,     \* update that wrote the value in volt (history)
    clExit,         \* exit status of the client process, -1 while it runs
    lastLog,        \* severity the handler logged at last (history)
    lastHandled,    \* number of the signal the handler got last (history)
    subAt,          \* emitCount when the handler was attached (history)
    pollFailed,     \* a property read of the poll loop has failed (history)
    failAt          \* emitCount at that failure (history)

simVars == <<temperature, voltage, lock, running, simPc, tick, tempTick, voltTick, rawTemp,
            updatesAfterStop>>
monVars == <<last_temp_reading, shutdown_requested, monPc, monTemp, version,
            prevRel, curSample, tickEmit, tornRead, evalsAfterShutdown, sampleTick,
                   emitsAfterShutdown>>
apiVars == <<calls, apiTemp, apiVolt>>
mainVars == <<mainPc, published, exitStatus, startupFailed, apiVars>>
busVars == <<emitCount, foreignCount, inbox>>
clientVars == <<clPc, connectOk, subscribed, cRunning, pollPc, clTemp, clVolt,
               clTempTick, clVoltTick,
               clExit, lastLog, lastHandled, subAt, pollFailed, failAt>>
clientSide == <<receiversSeen, busVars, clientVars>>
vars == <<simVars, monVars, mainVars, busUp, emitsInExcursion, clientSide>>

Init ==
    /\ temperature = InitTemperature
    /\ voltage = InitVoltage
    /\ lock = 0
    /\ running = FALSE
    /\ simPc = [th \in SimThreads |-> "unborn"]
    /\ tick = 0
    /\ tempTick = 0
    /\ voltTick = 0
    /\ last_temp_reading = InitLastTempReading
    /\ shutdown_requested = FALSE
    /\ monPc = "unborn"
    /\ monTemp = 0
    /\ version = ""
    /\ mainPc = "start"
    /\ published = FALSE
    /\ busUp = TRUE
    /\ exitStatus = -1
    /\ startupFailed = FALSE
    /\ rawTemp = InitTemperature
    /\ updatesAfterStop = [th \in SimThreads |-> 0]
    /\ evalsAfterShutdown = 0
    /\ sampleTick = 0
    /\ emitsAfterShutdown = 0
    /\ calls = 0
    /\ apiTemp = -1
    /\ apiVolt = -1
    /\ prevRel = "none"
    /\ curSample = -1
    /\ tickEmit = FALSE
    /\ tornRead = FALSE
    /\ emitsInExcursion = 0
    /\ emitCount = 0
    /\ foreignCount = 0
    /\ receiversSeen = {}
    /\ clPc = [c \in Clients |-> "connect"]
    /\ connectOk = [c \in Clients |-> FALSE]
    /\ subscribed = [c \in Clients |-> FALSE]
    /\ inbox = [c \in Clients |-> <<>>]
    /\ cRunning = [c \in Clients |-> FALSE]
    /\ pollPc = [c \in Clients |-> "unborn"]
    /\ clTemp = [c \in Clients |-> 0]
    /\ clVolt = [c \in Clients |-> 0]
    /\ clTempTick = [c \in Clients |-> 0]
    /\ clVoltTick = [c \in Clients |-> 0]
    /\ clExit = [c \in Clients |-> -1]
    /\ lastLog = [c \in Clients |-> "none"]
    /\ lastHandled = [c \in Clients |-> 0]
    /\ subAt = [c \in Clients |-> 0]
    /\ pollFailed = [c \in Clients |-> FALSE]
    /\ failAt = [c \in Clients |-> 0]

\* The service process has not exited: its daemon threads still run.
ServiceAlive == mainPc /= "exited"

\* ------------------------------------------------------- HardwareSimulator
\* time.sleep(2) returns (or the thread has just started);
\* while self._running:
SimTop(th) ==
    /\ ServiceAlive
    /\ simPc[th] \in {"top", "sleep"}
    /\ IF running
          THEN /\ tick < MaxTick
               /\ simPc' = [simPc EXCEPT ![th] = "update"]
          ELSE simPc' = [simPc EXCEPT ![th] = "done"]
    /\ UNCHANGED <<temperature, voltage, lock, running, tick, tempTick, voltTick, rawTemp,
                   updatesAfterStop>>
    /\ UNCHANGED <<monVars, mainVars, busUp, emitsInExcursion, clientSide>>

\* with self._lock: temp_drift = uniform(-0.5, 0.5), plus uniform(5, 15) on
\* a spike; self._temperature += temp_drift
SimDriftUpdate(th, draws) ==
    /\ ServiceAlive
    /\ simPc[th] = "update"
    /\ lock = 0
    /\ lock' = th
    /\ \E p \in draws : temperature' = temperature + p[1] + p[2]
    /\ rawTemp' = temperature'
    /\ tick' = tick + 1
    /\ tempTick' = tick + 1
    /\ emitsInExcursion' = IF temperature' > TEMPERATURE_THRESHOLD
                               THEN emitsInExcursion ELSE 0
    /\ simPc' = [simPc EXCEPT ![th] = "clamp"]
    /\ UNCHANGED <<voltage, running, voltTick>>
    /\ UNCHANGED <<monVars, mainVars, busUp, clientSide>>

SimDrift(th, draws) ==
    /\ SimDriftUpdate(th, draws)
    /\ UNCHANGED updatesAfterStop

\* the same step, counting the updates begun with the flag cleared
SimDriftWatched(th, draws) ==
    /\ SimDriftUpdate(th, draws)
    /\ updatesAfterStop' = [updatesAfterStop EXCEPT
                               ![th] = IF running THEN @ ELSE Min(2, @ + 1)]

\* the same two steps of a loop that runs on after update MaxTick, its
\* generator then drawing no drift and no spike: the reading stays as it is
\* and the update keeps the number MaxTick
SimTopOn(th) ==
    /\ ServiceAlive
    /\ simPc[th] \in {"top", "sleep"}
    /\ simPc' = [simPc EXCEPT ![th] = IF running THEN "update" ELSE "done"]
    /\ UNCHANGED <<temperature, voltage, lock, running, tick, tempTick, voltTick, rawTemp,
                   updatesAfterStop>>
    /\ UNCHANGED <<monVars, mainVars, busUp, emitsInExcursion, clientSide>>

SimDriftOn(th, draws) ==
    IF tick < MaxTick
       THEN SimDrift(th, draws)
       ELSE /\ ServiceAlive
            /\ simPc[th] = "update"
            /\ lock = 0
            /\ lock' = th
            /\ temperature' = temperature + 0
            /\ rawTemp' = temperature'
            /\ tempTick' = tick
            /\ simPc' = [simPc EXCEPT ![th] = "clamp"]
            /\ UNCHANGED <<voltage, running, tick, voltTick, updatesAfterStop>>
            /\ UNCHANGED <<monVars, mainVars, busUp, emitsInExcursion, clientSide>>

\* the upper clamp forgotten
ClampLowOnly(t) == Max(TempMin, t)

Clamp(t) == Max(TempMin, Min(TempMax, t))

\* self._temperature = max(50.0, min(95.0, self._temperature))
SimClamp(th) ==
    /\ ServiceAlive
    /\ simPc[th] = "clamp"
    /\ temperature' = Clamp(temperature)
    /\ simPc' = [simPc EXCEPT ![th] = "volt"]
    /\ UNCHANGED <<voltage, lock, running, tick, tempTick, voltTick, rawTemp, updatesAfterStop>>
    /\ UNCHANGED <<monVars, mainVars, busUp, emitsInExcursion, clientSide>>

\* time.sleep(2) moved into the with block: the lock is kept while asleep
SimVoltageSleepsLocked(th, volts) ==
    /\ ServiceAlive
    /\ simPc[th] = "volt"
    /\ \E v \in volts : voltage' = v
    /\ voltTick' = tempTick
    /\ simPc' = [simPc EXCEPT ![th] = "sleep"]
    /\ UNCHANGED <<temperature, lock, running, tick, tempTick, rawTemp, updatesAfterStop>>
    /\ UNCHANGED <<monVars, mainVars, busUp, emitsInExcursion, clientSide>>

\* self._voltage = random.uniform(1.05, 1.15); the with block ends and
\* time.sleep(2) begins
SimVoltage(th, volts) ==
    /\ ServiceAlive
    /\ simPc[th] = "volt"
    /\ \E v \in volts : voltage' = v
    /\ voltTick' = tempTick
    /\ lock' = 0
    /\ simPc' = [simPc EXCEPT ![th] = "sleep"]
    /\ UNCHANGED <<temperature, running, tick, tempTick, rawTemp, updatesAfterStop>>
    /\ UNCHANGED <<monVars, mainVars, busUp, emitsInExcursion, clientSide>>

\* a sampled temperature against the threshold; "none" before the first sample
Rel(t) ==
    IF t < 0 THEN "none"
    ELSE IF t < TEMPERATURE_THRESHOLD THEN "below"
    ELSE IF t = TEMPERATURE_THRESHOLD THEN "at"
    ELSE "above"

\* get_sensor_data reading without the lock
CanReadUnlocked == TRUE

\* get_sensor_data can take the lock
CanRead == lock = 0

\* ------------------------------------------------- HealthMonitorService
\* 85.0 itself counted as exceeding
CrossingNonStrict(temp, last) ==
    temp >= TEMPERATURE_THRESHOLD /\ last <= TEMPERATURE_THRESHOLD

\* level-triggered: the previous reading ignored
CrossingLevel(temp, last) == temp > TEMPERATURE_THRESHOLD

\* if temp > TEMPERATURE_THRESHOLD and self._last_temp_reading <= TEMPERATURE_THRESHOLD
Crossing(temp, last) == temp > TEMPERATURE_THRESHOLD /\ last <= TEMPERATURE_THRESHOLD

\* while True: the flag is never looked at
MonTopNoPoll ==
    /\ ServiceAlive
    /\ monPc \in {"top", "sleep"}
    /\ monPc' = "sample"
    /\ UNCHANGED <<last_temp_reading, shutdown_requested, monTemp, version,
                   prevRel, curSample, tickEmit, tornRead, evalsAfterShutdown, sampleTick,
                   emitsAfterShutdown>>
    /\ UNCHANGED <<simVars, mainVars, busUp, emitsInExcursion, clientSide>>

\* time.sleep(1) returns (or the thread has just started);
\* while not self._shutdown_requested:
MonTop ==
    /\ ServiceAlive
    /\ monPc \in {"top", "sleep"}
    /\ monPc' = IF shutdown_requested THEN "done" ELSE "sample"
    /\ UNCHANGED <<last_temp_reading, shutdown_requested, monTemp, version,
                   prevRel, curSample, tickEmit, tornRead, evalsAfterShutdown, sampleTick,
                   emitsAfterShutdown>>
    /\ UNCHANGED <<simVars, mainVars, busUp, emitsInExcursion, clientSide>>

\* temp, _ = self._simulator.get_sensor_data(); the threshold test; when it
\* fails, self._last_temp_reading = temp and time.sleep(1) begins
MonSampleTick ==
    /\ ServiceAlive
    /\ monPc = "sample"
    /\ CanRead
    /\ prevRel' = Rel(curSample)
    /\ curSample' = temperature
    /\ tickEmit' = FALSE
    /\ tornRead' = (tornRead \/ tempTick /= voltTick)
    /\ IF Crossing(temperature, last_temp_reading)
          THEN /\ monTemp' = temperature
               /\ monPc' = "emit"
               /\ UNCHANGED last_temp_reading
          ELSE /\ last_temp_reading' = temperature
               /\ monPc' = "sleep"
               /\ UNCHANGED monTemp
    /\ UNCHANGED <<shutdown_requested, version, emitsAfterShutdown>>
    /\ UNCHANGED <<simVars, mainVars, busUp, emitsInExcursion, clientSide>>

MonSample ==
    /\ MonSampleTick
    /\ UNCHANGED <<evalsAfterShutdown, sampleTick>>

\* the same step, counting the ticks begun after shutdown() and noting the
\* update that wrote the value sampled
MonSampleWatched ==
    /\ MonSampleTick
    /\ sampleTick' = tempTick
    /\ evalsAfterShutdown' = IF shutdown_requested
                                 THEN Min(2, evalsAfterShutdown + 1)
                                 ELSE evalsAfterShutdown

\* a bus handing signals to client processes that never subscribed
ReceiversAll == Clients

\* the handlers attached by bus.subscribe
Receivers == {c \in Clients : subscribed[c]}

\* the bus hands a signal to every attached handler's process
Deliver(args) ==
    [c \in Clients |->
        IF c \in Receivers
           THEN Append(inbox[c], [id |-> emitCount + 1, args |-> args])
           ELSE inbox[c]]

\* an emission that fails when nobody listens
EmitRaisesNoSubscriber == (published /\ ~busUp) \/ Receivers = {}

\* the signal call raises: before bus.publish nothing is registered on the
\* signal; afterwards it goes to the bus, which raises when the connection
\* is closed
EmitRaises == published /\ ~busUp

\* a signal call that reads the sensor again for its argument
EmitArgReread == temperature

\* the argument of self.TemperatureThresholdExceeded(temp): the local temp
EmitArg == monTemp

\* self.TemperatureThresholdExceeded(temp); nothing catches what it raises:
\* the thread ends.  Otherwise self._last_temp_reading = temp and
\* time.sleep(1) begins
MonEmitCall ==
    /\ ServiceAlive
    /\ monPc = "emit"
    /\ IF EmitRaises
          THEN /\ monPc' = "dead"
               /\ UNCHANGED <<last_temp_reading, inbox>>
          ELSE /\ monPc' = "sleep"
               /\ last_temp_reading' = monTemp
               /\ inbox' = IF published THEN Deliver(ServiceArgs(EmitArg)) ELSE inbox
    /\ monTemp' = 0
    /\ tickEmit' = TRUE
    /\ emitCount' = emitCount + 1
    /\ receiversSeen' = IF published /\ busUp
                            THEN receiversSeen \cup {Cardinality(Receivers)}
                            ELSE receiversSeen
    /\ emitsInExcursion' = IF temperature > TEMPERATURE_THRESHOLD
                               THEN emitsInExcursion + 1 ELSE emitsInExcursion
    /\ UNCHANGED <<shutdown_requested, version, prevRel, curSample, tornRead,
                   evalsAfterShutdown, sampleTick>>
    /\ UNCHANGED <<simVars, mainVars, busUp, foreignCount, clientVars>>

MonEmit ==
    /\ MonEmitCall
    /\ UNCHANGED emitsAfterShutdown

\* the same step, counting the signal calls made after shutdown()
MonEmitWatched ==
    /\ MonEmitCall
    /\ emitsAfterShutdown' = IF shutdown_requested
                                 THEN Min(2, emitsAfterShutdown + 1)
                                 ELSE emitsAfterShutdown

\* ------------------------------------------------------------------ main
\* HardwareSimulator.start(): if not self._running, set the flag and start
\* a new thread (the first thread object not yet used)
SimulatorStart ==
    IF ~running
       THEN /\ running' = TRUE
            /\ \E th \in SimThreads :
                  /\ simPc[th] = "unborn"
                  /\ \A o \in SimThreads : simPc[o] = "unborn" => th <= o
                  /\ simPc' = [simPc EXCEPT ![th] = "top"]
            /\ updatesAfterStop' = [th \in SimThreads |-> 0]
       ELSE UNCHANGED <<running, simPc, updatesAfterStop>>

\* simulator.start()
MainStart ==
    /\ mainPc = "start"
    /\ SimulatorStart
    /\ mainPc' = "service"
    /\ UNCHANGED <<temperature, voltage, lock, tick, tempTick, voltTick, rawTemp>>
    /\ UNCHANGED <<monVars, published, exitStatus, startupFailed, busUp, emitsInExcursion, clientSide>>
    /\ UNCHANGED apiVars

\* HealthMonitorService.__init__: the fields are set (last reading 0.0, no
\* shutdown requested) and the monitor thread starts
ServiceInit ==
    /\ version' = "1.0.0-prototype"
    /\ last_temp_reading' = InitLastTempReading
    /\ shutdown_requested' = FALSE
    /\ monPc' = "top"

\* service = HealthMonitorService(simulator)
MainService ==
    /\ mainPc = "service"
    /\ ServiceInit
    /\ mainPc' = "publish"
    /\ UNCHANGED <<monTemp, prevRel, curSample, tickEmit, tornRead, evalsAfterShutdown, sampleTick,
                   emitsAfterShutdown>>
    /\ UNCHANGED <<simVars, published, exitStatus, startupFailed, busUp, emitsInExcursion, clientSide>>
    /\ UNCHANGED apiVars

\* bus.publish(BUS_NAME, (OBJECT_PATH, service)), then loop.run(); a failure
\* is caught by "except Exception", which calls sys.exit(1)
MainPublish ==
    /\ mainPc = "publish"
    /\ \/ /\ busUp
          /\ published' = TRUE
          /\ mainPc' = "run"
          /\ UNCHANGED <<exitStatus, startupFailed>>
       \/ /\ mainPc' = "stop"
          /\ exitStatus' = 1
          /\ startupFailed' = TRUE
          /\ UNCHANGED published
    /\ UNCHANGED <<simVars, monVars, busUp, emitsInExcursion, clientSide>>
    /\ UNCHANGED apiVars

\* KeyboardInterrupt: "except KeyboardInterrupt", then the finally block
MainInterrupt ==
    /\ mainPc \in {"start", "service", "publish", "run"}
    /\ mainPc' = "stop"
    /\ exitStatus' = 0
    /\ UNCHANGED <<simVars, monVars, published, startupFailed, busUp, emitsInExcursion, clientSide>>
    /\ UNCHANGED apiVars

\* a stop() that leaves the flag set
SimulatorStopForgotten ==
    UNCHANGED <<running, temperature, voltage>>

\* a stop() that puts the readings back to their defaults
SimulatorStopResets ==
    /\ running' = FALSE
    /\ temperature' = InitTemperature
    /\ voltage' = InitVoltage

\* HardwareSimulator.stop(): the flag is cleared, nothing else is written
SimulatorStop ==
    /\ running' = FALSE
    /\ UNCHANGED <<temperature, voltage>>

\* HealthMonitorService.shutdown(): the flag is set, nothing else is written
ServiceShutdown ==
    /\ shutdown_requested' = TRUE
    /\ UNCHANGED version

\* finally: if simulator: simulator.stop()
MainStop ==
    /\ mainPc = "stop"
    /\ SimulatorStop
    /\ mainPc' = "shutdown"
    /\ UNCHANGED <<lock, simPc, tick, tempTick, voltTick, rawTemp, updatesAfterStop>>
    /\ UNCHANGED <<monVars, published, exitStatus, startupFailed, busUp, emitsInExcursion, clientSide>>
    /\ UNCHANGED apiVars

\* finally: if service: service.shutdown(); main returns and the process ends
MainShutdown ==
    /\ mainPc = "shutdown"
    /\ IF monPc /= "unborn"
          THEN ServiceShutdown
          ELSE UNCHANGED <<shutdown_requested, version>>
    /\ mainPc' = "exiting"
    /\ UNCHANGED <<last_temp_reading, monPc, monTemp,
                   prevRel, curSample, tickEmit, tornRead, evalsAfterShutdown, sampleTick,
                   emitsAfterShutdown>>
    /\ UNCHANGED <<simVars, published, exitStatus, startupFailed, busUp, emitsInExcursion, clientSide>>
    /\ UNCHANGED apiVars

\* the interpreter exits: the object is unpublished, daemon threads end
MainExit ==
    /\ mainPc = "exiting"
    /\ mainPc' = "exited"
    /\ published' = FALSE
    /\ UNCHANGED <<simVars, monVars, exitStatus, startupFailed, busUp, emitsInExcursion, clientSide>>
    /\ UNCHANGED apiVars

\* the session bus goes away
BusFail ==
    /\ published
    /\ busUp
    /\ busUp' = FALSE
    /\ UNCHANGED <<simVars, monVars, mainVars, emitsInExcursion, clientSide>>

\* another sender emits a signal of the same interface and name
ForeignSignal ==
    /\ busUp
    /\ foreignCount < MaxForeign
    /\ \E a \in ForeignArgs : inbox' = Deliver(a)
    /\ emitCount' = emitCount + 1
    /\ foreignCount' = foreignCount + 1
    /\ UNCHANGED <<simVars, monVars, mainVars, busUp, emitsInExcursion,
                   receiversSeen, clientVars>>

\* the properties of HealthMonitorService: Temperature and Voltage each
\* return one element of their own get_sensor_data() call
Temperature == temperature

Voltage == voltage

Version == version

\* ---------------------------------------------------------- driver of the API
\* simulator.start() called by a driver
ApiStart ==
    /\ calls < MaxCalls
    /\ SimulatorStart
    /\ calls' = calls + 1
    /\ UNCHANGED <<temperature, voltage, lock, tick, tempTick, voltTick, rawTemp>>
    /\ UNCHANGED <<apiTemp, apiVolt, mainPc, published, exitStatus, startupFailed>>
    /\ UNCHANGED <<monVars, busUp, emitsInExcursion, clientSide>>

\* simulator.stop() called by a driver
ApiStop ==
    /\ calls < MaxCalls
    /\ SimulatorStop
    /\ calls' = calls + 1
    /\ UNCHANGED <<lock, simPc, tick, tempTick, voltTick, rawTemp, updatesAfterStop>>
    /\ UNCHANGED <<apiTemp, apiVolt, mainPc, published, exitStatus, startupFailed>>
    /\ UNCHANGED <<monVars, busUp, emitsInExcursion, clientSide>>

\* HealthMonitorService(simulator) constructed by a driver
ApiService ==
    /\ monPc = "unborn"
    /\ ServiceInit
    /\ UNCHANGED <<monTemp, prevRel, curSample, tickEmit, tornRead, evalsAfterShutdown, sampleTick,
                   emitsAfterShutdown>>
    /\ UNCHANGED <<simVars, mainVars, busUp, emitsInExcursion, clientSide>>

\* service.shutdown() called by a driver
ApiShutdown ==
    /\ monPc /= "unborn"
    /\ ~shutdown_requested
    /\ ServiceShutdown
    /\ UNCHANGED <<last_temp_reading, monPc, monTemp,
                   prevRel, curSample, tickEmit, tornRead, evalsAfterShutdown, sampleTick,
                   emitsAfterShutdown>>
    /\ UNCHANGED <<simVars, mainVars, busUp, emitsInExcursion, clientSide>>

\* service.Temperature read by a driver
ApiReadTemperature ==
    /\ monPc /= "unborn"
    /\ CanRead
    /\ apiTemp' = Temperature
    /\ UNCHANGED <<calls, apiVolt, mainPc, published, exitStatus, startupFailed>>
    /\ UNCHANGED <<simVars, monVars, busUp, emitsInExcursion, clientSide>>

\* service.Voltage read by a driver
ApiReadVoltage ==
    /\ monPc /= "unborn"
    /\ CanRead
    /\ apiVolt' = Voltage
    /\ UNCHANGED <<calls, apiTemp, mainPc, published, exitStatus, startupFailed>>
    /\ UNCHANGED <<simVars, monVars, busUp, emitsInExcursion, clientSide>>

\* ------------------------------------------------------ HealthMonitorClient
ClientAlive(c) == clPc[c] /= "exited"

\* the service answers method calls: it is published and its main loop runs
Reachable == published /\ busUp /\ mainPc = "run"

\* self.monitor_proxy = self.bus.get(BUS_NAME, OBJECT_PATH): True, or False
\* after an exception
ClientConnect(c) ==
    /\ clPc[c] = "connect"
    /\ \/ /\ Reachable
          /\ connectOk' = [connectOk EXCEPT ![c] = TRUE]
       \/ connectOk' = [connectOk EXCEPT ![c] = FALSE]
    /\ clPc' = [clPc EXCEPT ![c] = "check"]
    /\ UNCHANGED <<subscribed, cRunning, pollPc, clTemp, clVolt, clTempTick, clVoltTick, clExit,
                   lastLog, lastHandled, subAt, pollFailed, failAt>>
    /\ UNCHANGED <<simVars, monVars, mainVars, busUp, emitsInExcursion,
                   receiversSeen, busVars>>

\* run() going on after a connect() that returned False
ClientCheckIgnored(c) ==
    /\ clPc[c] = "check"
    /\ clPc' = [clPc EXCEPT ![c] = "subscribe"]
    /\ UNCHANGED <<connectOk, subscribed, cRunning, pollPc, clTemp, clVolt, clTempTick, clVoltTick, clExit,
                   lastLog, lastHandled, subAt, pollFailed, failAt>>
    /\ UNCHANGED <<simVars, monVars, mainVars, busUp, emitsInExcursion,
                   receiversSeen, busVars>>

\* if not self.connect(): sys.exit(1); SystemExit passes "except Exception",
\* the finally block clears _running and the process ends with status 1
ClientCheck(c) ==
    /\ clPc[c] = "check"
    /\ IF connectOk[c]
          THEN /\ clPc' = [clPc EXCEPT ![c] = "subscribe"]
               /\ UNCHANGED <<cRunning, clExit>>
          ELSE /\ clPc' = [clPc EXCEPT ![c] = "exited"]
               /\ cRunning' = [cRunning EXCEPT ![c] = FALSE]
               /\ clExit' = [clExit EXCEPT ![c] = 1]
    /\ UNCHANGED <<connectOk, subscribed, pollPc, clTemp, clVolt, clTempTick, clVoltTick,
                   lastLog, lastHandled, subAt, pollFailed, failAt>>
    /\ UNCHANGED <<simVars, monVars, mainVars, busUp, emitsInExcursion,
                   receiversSeen, busVars>>

\* subscribe_to_signals(): bus.subscribe attaches the handler; an exception
\* is logged and run() goes on
ClientSubscribe(c) ==
    /\ clPc[c] = "subscribe"
    /\ IF busUp
          THEN /\ subscribed' = [subscribed EXCEPT ![c] = TRUE]
               /\ subAt' = [subAt EXCEPT ![c] = emitCount]
          ELSE UNCHANGED <<subscribed, subAt>>
    /\ clPc' = [clPc EXCEPT ![c] = "run_demo"]
    /\ UNCHANGED <<connectOk, cRunning, pollPc, clTemp, clVolt, clTempTick, clVoltTick, clExit,
                   lastLog, lastHandled, pollFailed, failAt>>
    /\ UNCHANGED <<simVars, monVars, mainVars, busUp, emitsInExcursion,
                   receiversSeen, busVars>>

\* run_demo(): self._running = True, the poll thread starts; then loop.run()
ClientRunDemo(c) ==
    /\ clPc[c] = "run_demo"
    /\ cRunning' = [cRunning EXCEPT ![c] = TRUE]
    /\ pollPc' = [pollPc EXCEPT ![c] = "top"]
    /\ clPc' = [clPc EXCEPT ![c] = "loop"]
    /\ UNCHANGED <<connectOk, subscribed, clTemp, clVolt, clTempTick, clVoltTick, clExit,
                   lastLog, lastHandled, subAt, pollFailed, failAt>>
    /\ UNCHANGED <<simVars, monVars, mainVars, busUp, emitsInExcursion,
                   receiversSeen, busVars>>

\* the handler without its isinstance(args[4], tuple) test
OnTempNoTupleTest(args) ==
    IF args.n >= 5 /\ Len(args.items) > 0
       THEN IF args.items[1].num THEN "critical" ELSE "error"
       ELSE "warning"

\* the severity _on_temp_threshold_exceeded(*args) logs at: the format
\* {current_temp:.2f} raises for an element that is no number, and the
\* exception is logged by logger.error
OnTempThresholdExceeded(args) ==
    IF args.n >= 5 /\ args.ptype = "tuple" /\ Len(args.items) > 0
       THEN IF args.items[1].num THEN "critical" ELSE "error"
       ELSE "warning"

\* the GLib main loop dispatches a delivered signal to the handler
ClientDispatch(c) ==
    /\ clPc[c] = "loop"
    /\ inbox[c] /= <<>>
    /\ lastLog' = [lastLog EXCEPT ![c] = OnTempThresholdExceeded(Head(inbox[c]).args)]
    /\ lastHandled' = [lastHandled EXCEPT ![c] = Head(inbox[c]).id]
    /\ inbox' = [inbox EXCEPT ![c] = Tail(inbox[c])]
    /\ UNCHANGED <<clPc, connectOk, subscribed, cRunning, pollPc, clTemp, clVolt, clTempTick, clVoltTick,
                   clExit, subAt, pollFailed, failAt>>
    /\ UNCHANGED <<simVars, monVars, mainVars, busUp, emitsInExcursion,
                   receiversSeen, emitCount, foreignCount>>

\* KeyboardInterrupt in loop.run(): finally clears _running, the process
\* ends with its daemon poll thread and the bus drops its handler; the
\* history of an ended process is dropped with it
ClientInterrupt(c) ==
    /\ clPc[c] = "loop"
    /\ clPc' = [clPc EXCEPT ![c] = "exited"]
    /\ cRunning' = [cRunning EXCEPT ![c] = FALSE]
    /\ clExit' = [clExit EXCEPT ![c] = 0]
    /\ subscribed' = [subscribed EXCEPT ![c] = FALSE]
    /\ inbox' = [inbox EXCEPT ![c] = <<>>]
    /\ pollPc' = [pollPc EXCEPT ![c] = "done"]
    /\ clTemp' = [clTemp EXCEPT ![c] = 0]
    /\ clVolt' = [clVolt EXCEPT ![c] = 0]
    /\ clTempTick' = [clTempTick EXCEPT ![c] = 0]
    /\ clVoltTick' = [clVoltTick EXCEPT ![c] = 0]
    /\ lastLog' = [lastLog EXCEPT ![c] = "none"]
    /\ lastHandled' = [lastHandled EXCEPT ![c] = 0]
    /\ subAt' = [subAt EXCEPT ![c] = 0]
    /\ pollFailed' = [pollFailed EXCEPT ![c] = FALSE]
    /\ failAt' = [failAt EXCEPT ![c] = 0]
    /\ UNCHANGED connectOk
    /\ UNCHANGED <<simVars, monVars, mainVars, busUp, emitsInExcursion,
                   receiversSeen, emitCount, foreignCount>>

\* time.sleep(5) returns (or the thread has just started);
\* while self._running:
PollTop(c) ==
    /\ ClientAlive(c)
    /\ pollPc[c] \in {"top", "sleep"}
    /\ pollPc' = [pollPc EXCEPT ![c] = IF cRunning[c] THEN "readT" ELSE "done"]
    /\ UNCHANGED <<clPc, connectOk, subscribed, cRunning, clTemp, clVolt, clTempTick, clVoltTick, clExit,
                   lastLog, lastHandled, subAt, pollFailed, failAt>>
    /\ UNCHANGED <<simVars, monVars, mainVars, busUp, emitsInExcursion,
                   receiversSeen, busVars>>

\* a failed read that leaves _running set
PollReadFailedKeepRunning(c) ==
    /\ pollPc' = [pollPc EXCEPT ![c] = "sleep"]
    /\ pollFailed' = [pollFailed EXCEPT ![c] = TRUE]
    /\ failAt' = [failAt EXCEPT ![c] = IF pollFailed[c] THEN failAt[c] ELSE emitCount]
    /\ clTemp' = [clTemp EXCEPT ![c] = 0]
    /\ clVolt' = [clVolt EXCEPT ![c] = 0]
    /\ UNCHANGED cRunning

\* except Exception: self._running = False; then time.sleep(5)
PollReadFailed(c) ==
    /\ cRunning' = [cRunning EXCEPT ![c] = FALSE]
    /\ pollPc' = [pollPc EXCEPT ![c] = "sleep"]
    /\ pollFailed' = [pollFailed EXCEPT ![c] = TRUE]
    /\ failAt' = [failAt EXCEPT ![c] = IF pollFailed[c] THEN failAt[c] ELSE emitCount]
    /\ clTemp' = [clTemp EXCEPT ![c] = 0]
    /\ clVolt' = [clVolt EXCEPT ![c] = 0]

\* temp = self.monitor_proxy.Temperature: the service's property calls
\* get_sensor_data; the call may fail
PollReadTemperatureCall(c) ==
    /\ ClientAlive(c)
    /\ pollPc[c] = "readT"
    /\ \/ /\ Reachable
          /\ CanRead
          /\ clTemp' = [clTemp EXCEPT ![c] = Temperature]
          /\ pollPc' = [pollPc EXCEPT ![c] = "readV"]
          /\ UNCHANGED <<cRunning, clVolt, pollFailed, failAt>>
       \/ PollReadFailed(c)
    /\ UNCHANGED <<clPc, connectOk, subscribed, clExit, lastLog, lastHandled, subAt>>
    /\ UNCHANGED <<simVars, monVars, mainVars, busUp, emitsInExcursion,
                   receiversSeen, busVars>>

PollReadTemperature(c) ==
    /\ PollReadTemperatureCall(c)
    /\ UNCHANGED <<clTempTick, clVoltTick>>

\* the same step, noting the update that wrote the value returned
PollReadTemperatureWatched(c) ==
    /\ PollReadTemperatureCall(c)
    /\ clTempTick' = [clTempTick EXCEPT ![c] = IF pollPc'[c] = "readV" THEN tempTick ELSE 0]
    /\ clVoltTick' = [clVoltTick EXCEPT ![c] = 0]

\* volt = self.monitor_proxy.Voltage
PollReadVoltageCall(c) ==
    /\ ClientAlive(c)
    /\ pollPc[c] = "readV"
    /\ \/ /\ Reachable
          /\ CanRead
          /\ clVolt' = [clVolt EXCEPT ![c] = Voltage]
          /\ pollPc' = [pollPc EXCEPT ![c] = "readVer"]
          /\ UNCHANGED <<cRunning, clTemp, pollFailed, failAt>>
       \/ PollReadFailed(c)
    /\ UNCHANGED <<clPc, connectOk, subscribed, clExit, lastLog, lastHandled, subAt>>
    /\ UNCHANGED <<simVars, monVars, mainVars, busUp, emitsInExcursion,
                   receiversSeen, busVars>>

PollReadVoltage(c) ==
    /\ PollReadVoltageCall(c)
    /\ UNCHANGED <<clTempTick, clVoltTick>>

\* the same step, noting the update that wrote the value returned
PollReadVoltageWatched(c) ==
    /\ PollReadVoltageCall(c)
    /\ clVoltTick' = [clVoltTick EXCEPT ![c] = IF pollPc'[c] = "readVer" THEN voltTick ELSE 0]
    /\ clTempTick' = [clTempTick EXCEPT ![c] = IF pollPc'[c] = "readVer" THEN @ ELSE 0]

\* version = self.monitor_proxy.Version; logger.info(...); time.sleep(5)
PollReadVersion(c) ==
    /\ ClientAlive(c)
    /\ pollPc[c] = "readVer"
    /\ \/ /\ Reachable
          /\ Version /= ""
          /\ clTemp' = [clTemp EXCEPT ![c] = 0]
          /\ clVolt' = [clVolt EXCEPT ![c] = 0]
          /\ pollPc' = [pollPc EXCEPT ![c] = "sleep"]
          /\ UNCHANGED <<cRunning, pollFailed, failAt>>
       \/ PollReadFailed(c)
    /\ clTempTick' = [clTempTick EXCEPT ![c] = 0]
    /\ clVoltTick' = [clVoltTick EXCEPT ![c] = 0]
    /\ UNCHANGED <<clPc, connectOk, subscribed, clExit, lastLog, lastHandled, subAt>>
    /\ UNCHANGED <<simVars, monVars, mainVars, busUp, emitsInExcursion,
                   receiversSeen, busVars>>

\* ------------------------------------------------------- specifications
\* the service process alone, its draws ranging over DriftDraws, SpikeDraws
\* and VoltDraws
Next ==
    \/ \E th \in SimThreads : SimTop(th)
    \/ \E th \in SimThreads : SimDrift(th, AllDraws)
    \/ \E th \in SimThreads : SimClamp(th)
    \/ \E th \in SimThreads : SimVoltage(th, VoltDraws)
    \/ MonTop
    \/ MonSample
    \/ MonEmit
    \/ MainStart
    \/ MainService
    \/ MainPublish
    \/ MainInterrupt
    \/ MainStop
    \/ MainShutdown
    \/ MainExit
    \/ BusFail

Spec == Init /\ [][Next]_vars

\* a step of the service whose generator gives the draws SeedDraw and
\* SeedVolt
SeededService ==
    \/ \E th \in SimThreads : SimTop(th)
    \/ \E th \in SimThreads : SimDrift(th, {SeedDraw(tick + 1)})
    \/ \E th \in SimThreads : SimClamp(th)
    \/ \E th \in SimThreads : SimVoltage(th, {SeedVolt(tick)})
    \/ MonTop
    \/ MonSample
    \/ MonEmit
    \/ MainStart
    \/ MainService
    \/ MainPublish
    \/ MainStop
    \/ MainShutdown
    \/ MainExit
    \/ BusFail

\* a step of client c: run() or its poll thread
ClientStep(c) ==
    \/ ClientConnect(c)
    \/ ClientCheck(c)
    \/ ClientSubscribe(c)
    \/ ClientRunDemo(c)
    \/ ClientDispatch(c)
    \/ ClientInterrupt(c)
    \/ PollTop(c)
    \/ PollReadTemperature(c)
    \/ PollReadVoltage(c)
    \/ PollReadVersion(c)

\* the service, which may be interrupted, and one client
NextSystem ==
    \/ SeededService
    \/ MainInterrupt
    \/ ClientStep(1)

SpecSystem == Init /\ [][NextSystem]_vars

\* the service, one client and other senders on the bus
NextForeign ==
    \/ SeededService
    \/ ForeignSignal
    \/ ClientStep(1)

SpecForeign == Init /\ [][NextForeign]_vars

\* the service and every client
NextSubscribers ==
    \/ SeededService
    \/ \E c \in Clients : ClientStep(c)

SpecSubscribers == Init /\ [][NextSubscribers]_vars

\* a step of a simulation thread, of the monitor thread, of main()'s
\* finally block
SimStep ==
    \E th \in SimThreads :
        \/ SimTop(th)
        \/ SimDrift(th, {SeedDraw(tick + 1)})
        \/ SimClamp(th)
        \/ SimVoltage(th, {SeedVolt(tick)})

\* a step of a simulation thread that runs on after update MaxTick
SimStepOn ==
    \E th \in SimThreads :
        \/ SimTopOn(th)
        \/ SimDriftOn(th, {SeedDraw(tick + 1)})
        \/ SimClamp(th)
        \/ SimVoltage(th, {SeedVolt(tick)})

MainStep == MainStart \/ MainService \/ MainPublish

MonStep == MonTop \/ MonSample \/ MonEmit

FinallyStep == MainStop \/ MainShutdown \/ MainExit

\* the service, which may be interrupted and may lose its bus; its
\* simulation loop runs for as long as its flag is set
NextFair ==
    \/ SimStepOn
    \/ MonStep
    \/ MainStep
    \/ MainInterrupt
    \/ FinallyStep
    \/ BusFail

\* the service under a scheduler that lets every thread that can run take
\* its next step; the interrupt and the loss of the bus need not happen.
\* The monitor thread waits for the lock only while an update holds it, and
\* the simulation loop sleeps with the lock released between two updates, so
\* a monitor step that is possible again and again is taken
SpecFair ==
    /\ Init
    /\ [][NextFair]_vars
    /\ WF_vars(SimStepOn)
    /\ SF_vars(MonStep)
    /\ WF_vars(MainStep)
    /\ WF_vars(FinallyStep)

\* the steps of the service and of client c with the watched steps in place
\* of the plain ones
WatchedService ==
    \/ \E th \in SimThreads : SimTop(th)
    \/ \E th \in SimThreads : SimDriftWatched(th, {SeedDraw(tick + 1)})
    \/ \E th \in SimThreads : SimClamp(th)
    \/ \E th \in SimThreads : SimVoltage(th, {SeedVolt(tick)})
    \/ MonTop
    \/ MonSampleWatched
    \/ MonEmitWatched
    \/ MainStart
    \/ MainService
    \/ MainPublish
    \/ MainInterrupt
    \/ MainStop
    \/ MainShutdown
    \/ MainExit

WatchedClient(c) ==
    \/ ClientConnect(c)
    \/ ClientCheck(c)
    \/ ClientSubscribe(c)
    \/ ClientRunDemo(c)
    \/ ClientDispatch(c)
    \/ PollTop(c)
    \/ PollReadTemperatureWatched(c)
    \/ PollReadVoltageWatched(c)
    \/ PollReadVersion(c)

\* the service, which may be interrupted, and one client
NextWatched ==
    \/ WatchedService
    \/ WatchedClient(1)

SpecWatched == Init /\ [][NextWatched]_vars

\* a driver that builds one HardwareSimulator and one HealthMonitorService
\* over it and calls start(), stop(), shutdown() and the properties in any
\* order, with the threads they start
NextApi ==
    \/ SimStep
    \/ MonStep
    \/ ApiStart
    \/ ApiStop
    \/ ApiService
    \/ ApiShutdown
    \/ ApiReadTemperature
    \/ ApiReadVoltage

SpecApi == Init /\ [][NextApi]_vars

\* ------------------------------------------------------------ properties
\* an evaluation tick is over: the monitor sleeps, has ended, or was killed
\* by the exception of its signal call
TickOver == monPc \in {"sleep", "done", "dead"} /\ curSample >= 0

\* ticks of a scripted run of the monitor's test on which the signal is
\* called, from the stored reading last
RECURSIVE FiringTicks(_, _, _)
FiringTicks(readings, last, n) ==
    IF readings = <<>> THEN {}
    ELSE (IF Crossing(Head(readings), last) THEN {n} ELSE {})
            \cup FiringTicks(Tail(readings), Head(readings), n + 1)

\* [80, 83, 86, 90, 84, 87, 82]
ScriptedReadings == <<160, 166, 172, 180, 168, 174, 164>>

\* C1: an evaluation tick calls the signal exactly when the previous sample
\* is <= 85.0 and the current one is > 85.0 (a first sample <= 85.0 calls
\* nothing); 85.0 itself never counts as exceeded; the scripted readings
\* fire on ticks 3 and 6 only.
C1_RisingEdgeOnly ==
    /\ TickOver =>
          IF prevRel = "none"
             THEN (curSample <= TEMPERATURE_THRESHOLD => ~tickEmit)
             ELSE (tickEmit <=> (prevRel \in {"below", "at"}
                                   /\ curSample > TEMPERATURE_THRESHOLD))
    /\ monPc = "emit" =>
          (prevRel \in {"none", "below", "at"} /\ curSample > TEMPERATURE_THRESHOLD)
    /\ FiringTicks(ScriptedReadings, InitLastTempReading, 1) = {3, 6}

\* the tick after a sample of exactly 85.0 sampled 85.5 and called the signal
C1_Witness ==
    /\ TickOver
    /\ prevRel = "at"
    /\ curSample = TEMPERATURE_THRESHOLD + 1
    /\ tickEmit

\* C2: while _temperature stays above 85.0 the signal is called at most once.
C2_OncePerExcursion == emitsInExcursion <= 1

\* two consecutive ticks sampled above 85.0 in an excursion that has had its
\* signal: the second tick called nothing
C2_Witness ==
    /\ TickOver
    /\ prevRel = "above"
    /\ curSample > TEMPERATURE_THRESHOLD
    /\ ~tickEmit
    /\ temperature > TEMPERATURE_THRESHOLD
    /\ emitsInExcursion = 1

InRange(t, v) ==
    /\ TempMin <= t /\ t <= TempMax
    /\ VoltMin <= v /\ v <= VoltMax

C4_NoTornRead ==
    /\ ~tornRead
    /\ CanRead => tempTick = voltTick

\* the monitor has read an updated pair and waits for the lock again while
\* an update is half done
C4_Witness ==
    /\ ~tornRead
    /\ curSample >= 0
    /\ curSample /= InitTemperature
    /\ monPc = "sample"
    /\ lock /= 0
    /\ tempTick /= voltTick

\* C6: an exception raised in an evaluation tick does not end the monitor
\* loop.
C6_LoopSurvivesException == monPc /= "dead"
\* C5: the handler never gets a signal emitted before it was attached, and
\* gets each signal at most once: every signal delivered to a client or
\* handled by it was emitted after its subscription, and the numbers of the
\* signals it is handed strictly increase.
C5_NoReplayAtMostOnce ==
    \A c \in Clients :
        /\ \A i \in 1..Len(inbox[c]) :
              /\ inbox[c][i].id > subAt[c]
              /\ inbox[c][i].id > lastHandled[c]
              /\ inbox[c][i].id <= emitCount
              /\ \A j \in 1..Len(inbox[c]) : i < j => inbox[c][i].id < inbox[c][j].id
        /\ lastHandled[c] > 0 => lastHandled[c] > subAt[c]
        /\ ~subscribed[c] => inbox[c] = <<>>

\* the service emitted before client 1 subscribed and again afterwards; the
\* handler got the later signal only
C5_Witness ==
    /\ foreignCount = 0
    /\ subAt[1] >= 1
    /\ lastHandled[1] > subAt[1]
    /\ lastLog[1] = "critical"

\* the step is the service's signal call
EmitStep == monPc = "emit" /\ monPc' /= "emit"

\* the step is client c's first failed property read
PollFailStep(c) == ~pollFailed[c] /\ pollFailed'[c]

\* C7: after the first failed property read the poll loop issues no further
\* read; the failure leaves the handler attached and the main loop running,
\* and a signal the service emits afterwards is still delivered.
C7_PollStopsHandlerStays ==
    /\ [](\A c \in Clients :
            pollFailed[c] => /\ pollPc[c] \in {"sleep", "done"}
                             /\ ~cRunning[c])
    /\ [][\A c \in Clients :
            /\ PollFailStep(c) =>
                  /\ subscribed'[c] = subscribed[c]
                  /\ clPc'[c] = clPc[c]
                  /\ inbox'[c] = inbox[c]
            /\ (EmitStep /\ published /\ busUp /\ subscribed[c] /\ pollFailed[c]) =>
                  inbox'[c] = Append(inbox[c], [id |-> emitCount',
                                                args |-> ServiceArgs(monTemp)])]_vars

\* client 1's poll loop has failed and ended, and its handler then got a
\* signal the service emitted after the failure
C7_Witness ==
    /\ pollFailed[1]
    /\ pollPc[1] = "done"
    /\ subscribed[1]
    /\ foreignCount = 0
    /\ lastHandled[1] > failAt[1]
    /\ lastLog[1] = "critical"

\* C8: after a failed connect() the client never subscribes, never starts
\* the poll loop and ends with exit status 1.
C8_ConnectFailureExits ==
    \A c \in Clients :
        (clPc[c] /= "connect" /\ ~connectOk[c]) =>
            /\ clPc[c] \in {"check", "exited"}
            /\ clPc[c] = "exited" => clExit[c] = 1
            /\ ~subscribed[c]
            /\ ~cRunning[c]
            /\ pollPc[c] = "unborn"
            /\ inbox[c] = <<>>

\* client 1 has ended after a failed connect()
C8_Witness ==
    /\ ~connectOk[1]
    /\ clPc[1] = "exited"
    /\ clExit[1] = 1

\* the callback's arguments lack the expected shape
BadShape(args) == ~(args.n >= 5 /\ args.ptype = "tuple" /\ Len(args.items) > 0)

\* the arguments have the shape, but the first element is no number
BadElement(args) == ~BadShape(args) /\ ~args.items[1].num

Malformed(args) == BadShape(args) \/ BadElement(args)

\* the step is the dispatch of client c's oldest delivered signal
Dispatched(c) ==
    /\ clPc[c] = "loop"
    /\ clPc'[c] = "loop"
    /\ inbox[c] /= <<>>
    /\ inbox'[c] = Tail(inbox[c])

\* C9 as claimed: every malformed payload is logged at warning severity,
\* without a critical alert, and the handler stays attached.
C9_MalformedLogsWarning ==
    [][\A c \in Clients :
        (Dispatched(c) /\ Malformed(Head(inbox[c]).args)) =>
            /\ lastLog'[c] = "warning"
            /\ subscribed'[c] = subscribed[c]]_vars

\* C9 as amended: fewer than five arguments, or a fifth argument that is no
\* non-empty tuple, is logged at warning severity; a first element that is
\* no number is logged at error severity; neither logs a critical alert and
\* the handler stays attached with the main loop running.
C9_MalformedLogsWarningOrError ==
    [][\A c \in Clients :
        (Dispatched(c) /\ Malformed(Head(inbox[c]).args)) =>
            /\ lastLog'[c] = (IF BadShape(Head(inbox[c]).args) THEN "warning" ELSE "error")
            /\ lastLog'[c] /= "critical"
            /\ subscribed'[c] = subscribed[c]
            /\ subscribed'[c]]_vars

\* the handler of client 1 has logged an error for a payload and is still
\* attached, its main loop running
C9_Witness ==
    /\ lastLog[1] = "error"
    /\ subscribed[1]
    /\ clPc[1] = "loop"

\* C10: the signal call does not fail or block for lack of subscribers (it
\* raises only when the published service has lost its bus connection),
\* hands nothing to a client that is not attached, and leaves the monitor
\* with the sampled temperature stored and the same ticks signalled,
\* whatever the number of attached handlers.
C10_EmitIgnoresSubscribers ==
    /\ [](TickOver /\ monPc /= "dead" => last_temp_reading = curSample)
    /\ [](TickOver /\ prevRel /= "none" =>
            (tickEmit <=> (prevRel /= "above" /\ curSample > TEMPERATURE_THRESHOLD)))
    /\ [][EmitStep =>
            /\ (published /\ ~busUp) \/ (monPc' = "sleep" /\ last_temp_reading' = monTemp)
            /\ \A c \in Clients : ~subscribed[c] => inbox'[c] = inbox[c]]_vars

\* the service has put a signal on the bus with no handler attached and one
\* with two attached, and its loop sleeps with the sample stored
C10_Witness ==
    /\ {0, 2} \subseteq receiversSeen
    /\ monPc = "sleep"
    /\ tickEmit
    /\ last_temp_reading = curSample

\* the simulation loop and the monitor loop have ended: each left its while
\* loop (or the monitor was ended by an exception), or the process is gone
\* and its daemon threads with it
LoopsEnded ==
    \/ ~ServiceAlive
    \/ /\ \A th \in SimThreads : simPc[th] \in {"unborn", "done"}
       /\ monPc \in {"done", "dead"}

\* C11: when main() leaves after the simulator and the service were created
\* (interrupt or failed publish), stop() and shutdown() have both been
\* called; a failed startup exits with status 1; and once main() is in its
\* finally block both loops eventually end.
C11_ExitStopsBothLoops ==
    /\ [](mainPc \in {"exiting", "exited"} /\ monPc /= "unborn" =>
            ~running /\ shutdown_requested)
    /\ [](mainPc = "exited" /\ startupFailed => exitStatus = 1)
    /\ [](mainPc = "exited" /\ ~startupFailed => exitStatus = 0)
    /\ ((mainPc = "stop" /\ monPc /= "unborn") ~> LoopsEnded)

\* main() has exited with status 1 after a failed publish, both flags set,
\* with the simulation loop having seen its flag
C11_Witness ==
    /\ mainPc = "exited"
    /\ startupFailed
    /\ exitStatus = 1
    /\ ~running
    /\ shutdown_requested
    /\ simPc[1] = "done"

\* no simulation loop is running, and one has run and ended
LoopTerminated ==
    /\ \A th \in SimThreads : simPc[th] \in {"unborn", "done"}
    /\ \E th \in SimThreads : simPc[th] = "done"

\* the step is a stop() call; a shutdown() call
StopCall == calls' = calls + 1 /\ ~running'

ShutdownCall == ~shutdown_requested /\ shutdown_requested'

\* the voltage written by the latest completed update of the generator
LastWrittenVoltage == IF voltTick = 0 THEN InitVoltage ELSE SeedVolt(voltTick)

\* C12: stop() and shutdown() leave temperature, voltage and version as
\* they are; once the simulation loop has ended the two readings no longer
\* change, and a Temperature or Voltage read made then returns the value
\* the loop wrote last, not the defaults.
C12_StoppedKeepsLastValues ==
    /\ [][(StopCall \/ ShutdownCall) =>
            /\ temperature' = temperature
            /\ voltage' = voltage
            /\ version' = version]_vars
    /\ [][LoopTerminated =>
            /\ temperature' = temperature
            /\ voltage' = voltage
            /\ (apiTemp' /= apiTemp => apiTemp' = Clamp(rawTemp))
            /\ (apiVolt' /= apiVolt => apiVolt' = LastWrittenVoltage)]_vars

\* after stop() and shutdown() the loop has ended and the driver has read
\* the readings of the last update, which are not the defaults
C12_Witness ==
    /\ LoopTerminated
    /\ ~running
    /\ shutdown_requested
    /\ tick >= 2
    /\ apiTemp = Clamp(rawTemp)
    /\ apiVolt = LastWrittenVoltage
    /\ apiTemp /= InitTemperature
    /\ apiVolt /= InitVoltage

\* the temperature the generator's update k leaves in _temperature
RECURSIVE SeedTemp(_)
SeedTemp(k) ==
    IF k = 0 THEN InitTemperature
    ELSE Clamp(SeedTemp(k - 1) + SeedDraw(k)[1] + SeedDraw(k)[2])

\* the voltage it leaves in _voltage
SeedVoltage(k) == IF k = 0 THEN InitVoltage ELSE SeedVolt(k)

\* client c's poll iteration has read Temperature and Voltage
PairRead(c) == pollPc[c] = "readVer"

\* C13: the two property reads of one poll iteration are two
\* get_sensor_data() calls: each returns the value of a completed update,
\* the Voltage read that of the same update as the Temperature read or of a
\* later one; the witness is an iteration whose two values come from
\* different updates.
C13_PollReadsAreSeparateCalls ==
    \A c \in Clients :
        PairRead(c) =>
            /\ clTempTick[c] <= clVoltTick[c]
            /\ clVoltTick[c] <= tick
            /\ clTemp[c] = SeedTemp(clTempTick[c])
            /\ clVolt[c] = SeedVoltage(clVoltTick[c])

\* client 1 holds the temperature of the first update and the voltage of
\* the second: a pair no update wrote
C13_Witness ==
    /\ PairRead(1)
    /\ clTempTick[1] = 1
    /\ clVoltTick[1] = 2
    /\ clTemp[1] = SeedTemp(1)
    /\ clVolt[1] = SeedVoltage(2)
    /\ \A k \in 0..MaxTick : <<clTemp[1], clVolt[1]>> /= <<SeedTemp(k), SeedVoltage(k)>>

\* thread th is inside the with block of _simulation_loop
InUpdate(th) == simPc[th] \in {"clamp", "volt"}

\* C14: the lock is held exactly by a simulation thread inside its update
\* (get_sensor_data takes and drops it within one step): never by a thread
\* in time.sleep, never by the monitor while it calls the signal; the
\* holder changes only through a release, and a held lock is released
\* after the one update, so nobody waits longer than that.
C14_LockOnlyAroundUpdate ==
    /\ [](lock \in {0} \cup SimThreads)
    /\ [](\A th \in SimThreads : (lock = th) <=> InUpdate(th))
    /\ [](\A th \in SimThreads : simPc[th] \in {"top", "update", "sleep", "done"} => lock /= th)
    /\ [][lock /= 0 /\ lock' /= lock => lock' = 0]_vars
    /\ [][monPc' /= monPc => lock' = lock]_vars
    /\ (lock /= 0 ~> (lock = 0 \/ ~ServiceAlive))

\* the monitor is about to call the signal with the sample it took, while
\* the simulation thread holds the lock for its next update
C14_Witness ==
    /\ monPc = "emit"
    /\ lock = 1
    /\ InUpdate(1)
    /\ tempTick > voltTick

\* the step is the monitor's get_sensor_data() call
SampleStep == monPc = "sample" /\ monPc' /= "sample"

\* C15: the updates the monitor samples are in the order written: each
\* sample is the temperature of the latest completed update at that
\* moment, and the number of the update sampled never decreases from one
\* evaluation tick to the next.
C15_SamplesFollowWriteOrder ==
    /\ [][sampleTick' >= sampleTick]_vars
    /\ [][tempTick' >= tempTick]_vars
    /\ [][SampleStep =>
            /\ sampleTick' = tempTick
            /\ tempTick = voltTick
            /\ curSample' = SeedTemp(sampleTick')]_vars
    /\ [](sampleTick <= tempTick)
    /\ [](curSample >= 0 => curSample = SeedTemp(sampleTick))

\* the monitor sampled below 85.0 (update 0 or 1) and on its next tick the
\* value of update 4: it skipped updates 2 and 3
C15_Witness ==
    /\ TickOver
    /\ prevRel = "below"
    /\ sampleTick = 4
    /\ curSample = SeedTemp(4)

\* C16: the flags are looked at only at the top of an iteration: a loop at
\* the top with its flag cleared (set, for the monitor) ends; after stop(),
\* with no start() since, a simulation loop begins at most one further
\* update; after shutdown() the monitor begins at most one further
\* evaluation tick and calls the signal at most once more.
C16_CancellationPolledAtTop ==
    /\ [](\A th \in SimThreads : updatesAfterStop[th] <= 1)
    /\ [](evalsAfterShutdown <= 1)
    /\ [](emitsAfterShutdown <= 1)
    /\ [][\A th \in SimThreads :
            (~running /\ simPc[th] \in {"top", "sleep"} /\ simPc'[th] /= simPc[th])
                => simPc'[th] = "done"]_vars
    /\ [][(shutdown_requested /\ monPc \in {"top", "sleep"} /\ monPc' /= monPc)
                => monPc' = "done"]_vars
    /\ [][\A th \in SimThreads :
            (~running /\ simPc[th] \in {"clamp", "volt"} /\ simPc'[th] /= simPc[th])
                => simPc'[th] \in {"volt", "sleep"}]_vars

\* after stop() and shutdown() the simulation loop did one more update and
\* the monitor one more tick, which called the signal; both have ended
C16_Witness ==
    /\ ~running
    /\ shutdown_requested
    /\ updatesAfterStop[1] = 1
    /\ evalsAfterShutdown = 1
    /\ emitsAfterShutdown = 1
    /\ simPc[1] = "done"
    /\ monPc = "done"

\* thread th is inside an iteration of _simulation_loop: past the while
\* test, updating or asleep before the next test
Updating(th) == simPc[th] \in {"update", "clamp", "volt", "sleep"}

\* C17: whatever start() and stop() calls were made, at most one simulation
\* loop is alive and updating the reading.
C17_AtMostOneLoop ==
    Cardinality({th \in SimThreads : Updating(th)}) <= 1

\* C18: under fair scheduling of a monitor loop that has not been shut down,
\* whenever the simulator's temperature is above 85.0 with no signal call yet
\* made for that excursion, then eventually the signal is called for it,
\* unless the temperature falls back to 85.0 or below, shutdown is requested
\* or the process ends: a persisting excursion is never missed.
C18_PersistentExcursionAlerted ==
    (/\ temperature > TEMPERATURE_THRESHOLD
     /\ emitsInExcursion = 0
     /\ monPc # "unborn"
     /\ ~shutdown_requested)
        ~> (\/ emitsInExcursion >= 1
            \/ temperature <= TEMPERATURE_THRESHOLD
            \/ shutdown_requested
            \/ ~ServiceAlive)


\* C19: the signal is called with the temperature sampled on that same
\* tick: while the call is pending its argument is the tick's sample, a
\* value the simulator wrote (the generator's value after the update
\* sampled), above 85.0 and at most 95.0; the event handed to the
\* subscribers carries exactly that sample, also when the simulator has
\* updated the reading since the sample was taken.
C19_PayloadIsTickSample ==
    /\ [](monPc = "emit" =>
            /\ monTemp = curSample
            /\ monTemp = SeedTemp(sampleTick)
            /\ TEMPERATURE_THRESHOLD < monTemp
            /\ monTemp <= TempMax)
    /\ [][EmitStep /\ published /\ ~EmitRaises =>
            \A c \in Receivers :
                /\ Len(inbox'[c]) = Len(inbox[c]) + 1
                /\ inbox'[c][Len(inbox'[c])].args = ServiceArgs(curSample)]_vars

\* a signal call is pending, a subscriber is attached, and the simulator has
\* written a different reading since the sample was taken
C19_Witness ==
    /\ monPc = "emit"
    /\ published
    /\ Receivers # {}
    /\ sampleTick < tempTick
    /\ temperature # monTemp


\* C20: _last_temp_reading is 0.0 until the first evaluation tick, so the
\* first tick calls the signal if and only if its sample is above 85.0: a
\* monitor that starts above the threshold alerts once at once, one that
\* starts at or below it calls nothing on its first tick.
C20_FirstTickAlertsIffAbove ==
    /\ (monPc # "unborn" /\ curSample < 0) => last_temp_reading = 0
    /\ (TickOver /\ prevRel = "none") =>
          /\ tickEmit <=> curSample > TEMPERATURE_THRESHOLD
          /\ emitCount = (IF curSample > TEMPERATURE_THRESHOLD THEN 1 ELSE 0)

\* the first evaluation tick sampled a reading above 85.0 and called the
\* signal
C20_Witness ==
    /\ TickOver
    /\ prevRel = "none"
    /\ curSample > TEMPERATURE_THRESHOLD
    /\ tickEmit
    /\ emitCount = 1

====
